---- MODULE Spec2Model ----
(***************************************************************************)
(* Reviewer-assignment service (pr-manager-avito): the relational tables,  *)
(* the repository methods of internal/repository/repository.go and the     *)
(* HTTP handlers of internal/handlers/handlers.go that call them.          *)
(*                                                                         *)
(* Every request runs on its own worker.  A worker executes the SQL        *)
(* statements of its handler one at a time; statements of different        *)
(* workers interleave.  The pool is opened with the default isolation      *)
(* level (READ COMMITTED): every statement reads the rows committed at the *)
(* moment it runs, a transaction's own writes become visible to others at  *)
(* COMMIT, and a write that meets an uncommitted write of another          *)
(* transaction on the same row or unique key waits for that transaction.   *)
(***************************************************************************)
EXTENDS Integers, Sequences, FiniteSets, Bags, TLC

\* ------------------------------------------------------------------ bounds
MaxUserSeq == 4        \* values the users.id sequence may hand out
MaxClock == 3          \* readings of NOW() that are stored

\* ---------------------------------------------------------------- constants
StatusOpen == "OPEN"
StatusMerged == "MERGED"

Workers == {"w1", "w2"}

\* ------------------------------------------------- strconv on small numbers
Digits == <<"1", "2", "3", "4", "5", "6", "7", "8", "9">>

FormatInt(n) == Digits[n]

ParseOk(s) == \E n \in DOMAIN Digits : Digits[n] = s

ParseInt(s) == CHOOSE n \in DOMAIN Digits : Digits[n] = s

\* ------------------------------------------------------------------- inputs
Member(id, name, active) == [user_id |-> id, username |-> name, is_active |-> active]

\* request bodies of POST /team/add
TeamInputs ==
    << [team_name |-> "backend",
        members |-> << Member("2", "n2", TRUE), Member("1", "n1", TRUE),
                       Member("u3", "n3", TRUE), Member("u4", "n4", TRUE) >>],
       [team_name |-> "mobile",
        members |-> << Member("u4", "n4", TRUE) >>],
       [team_name |-> "core",
        members |-> << Member("2", "ann", TRUE), Member("1", "bob", TRUE),
                       Member("u3", "cy", TRUE) >>],
       [team_name |-> "infra",
        members |-> << Member("1", "rob", FALSE) >>],
       [team_name |-> "platform",
        members |-> << Member("1", "p1", TRUE), Member("2", "p2", TRUE),
                       Member("u3", "p3", TRUE), Member("u4", "p4", TRUE) >>],
       [team_name |-> "core",
        members |-> << Member("1", "bo", TRUE) >>],
       [team_name |-> "alpha",
        members |-> << Member("1", "a1", TRUE), Member("2", "a2", TRUE) >>],
       [team_name |-> "beta",
        members |-> << Member("2", "b2", TRUE), Member("1", "b1", TRUE) >>] >>

\* the requests of the main specification
MainTeams == {1, 2}
PRIds == {"pr-1"}
\* every PR id a request may carry
AllPRIds == {"pr-1", "pr-2"}
AuthorInputs == {"3", "u3"}
UserInputs == {"1", "2"}
StatusInputs == {"u4"}

VARIABLES users, users_id_seq, teams, teams_id_seq, team_users,
          pull_requests, pull_requests_id_seq, pr_reviewers, now, w,
          first_merge    \* history: what the first successful merge of a PR reported

tables == <<users, users_id_seq, teams, teams_id_seq, team_users,
            pull_requests, pull_requests_id_seq, pr_reviewers, now, first_merge>>
vars == <<users, users_id_seq, teams, teams_id_seq, team_users,
          pull_requests, pull_requests_id_seq, pr_reviewers, now, w, first_merge>>

\* --------------------------------------------------------------- worker row
NoReport == {"-"}

Idle ==
    [pc |-> "idle", op |-> "none", res |-> "none",
     pr |-> "", user |-> "", flag |-> FALSE, team |-> 0,
     uid |-> 0, prid |-> 0, author |-> 0, teamID |-> 0,
     cur |-> {}, picks |-> {}, ins |-> {}, upd |-> {}, del |-> {},
     fresh |-> FALSE, ts |-> 0, status |-> "", ret |-> {},
     \* history of the request, read by the properties only
     cause |-> "", lap |-> FALSE, lapR |-> FALSE,
     pre |-> FALSE, stale |-> FALSE,
     \* the list answered by GET /users/getReview
     list |-> <<>>,
     \* the number of proposed rows the users upsert has locked so far
     locked |-> 0]

Seq2Set(s) == {s[i] : i \in DOMAIN s}

\* ------------------------------------------------------------ table queries
UserByExt(ext) == {u \in users : u.external_id = ext}
PRByExt(ext) == {p \in pull_requests : p.external_id = ext}
TeamByName(n) == {t \in teams : t.name = n}

\* SELECT team_id FROM team_users WHERE user_id = $1 (the rows LIMIT 1 picks from)
TeamsOfUser(uid) == {tu.team_id : tu \in {x \in team_users : x.user_id = uid}}

\* SELECT reviewer_id FROM pr_reviewers WHERE pr_id = $1
ReviewersOf(prid) == {k.reviewer_id : k \in {x \in DOMAIN pr_reviewers : x.pr_id = prid}}

\* variant: the condition user_id != $2 is left out of the query
TeammatesWithAuthor(teamID, exclude) ==
    {tu.user_id : tu \in {x \in team_users :
        /\ x.team_id = teamID
        /\ \E u \in users : u.id = x.user_id /\ u.is_active}}

\* variant: the condition is_active = true is left out of the query
InactiveToo(teamID, exclude) ==
    {tu.user_id : tu \in {x \in team_users :
        /\ x.team_id = teamID
        /\ x.user_id # exclude}}

\* team_users JOIN users WHERE team_id = $1 AND is_active AND user_id != $2
ActiveTeammates(teamID, exclude) ==
    {tu.user_id : tu \in {x \in team_users :
        /\ x.team_id = teamID
        /\ x.user_id # exclude
        /\ \E u \in users : u.id = x.user_id /\ u.is_active}}

Init ==
    /\ users = {}
    /\ users_id_seq = 0
    /\ teams = {}
    /\ teams_id_seq = 0
    /\ team_users = {}
    /\ pull_requests = {}
    /\ pull_requests_id_seq = 0
    /\ pr_reviewers = EmptyBag
    /\ now = 0
    /\ w = [p \in Workers |-> Idle]
    /\ first_merge = [e \in AllPRIds |-> NoReport]

Set(p, r) == w' = [w EXCEPT ![p] = r]

InFlight(q) == w[q].pc \notin {"idle", "done"}

\* a request arrives at worker p; the requests that are being served while it
\* arrives overlap with it (recorded for the reassignments only)
Start(p, r) ==
    LET R(x) == x.op = "ReassignReviewer" IN
    w' = [q \in Workers |->
            IF q = p
            THEN [r EXCEPT !.lap = R(r) /\ \E o \in Workers \ {p} : InFlight(o),
                           !.lapR = R(r) /\ \E o \in Workers \ {p} :
                                                InFlight(o) /\ R(w[o])]
            ELSE IF InFlight(q) /\ R(w[q]) /\ r.pc # "done"
                 THEN [w[q] EXCEPT !.lap = TRUE, !.lapR = @ \/ R(r)]
                 ELSE w[q]]

Done(p, result) == Set(p, [w[p] EXCEPT !.pc = "done", !.res = result])

\* the response has been written: the worker takes the next request
Return(p) ==
    /\ w[p].pc = "done"
    /\ Set(p, Idle)
    /\ UNCHANGED tables

\* ===================================================== POST /users/setIsActive
\* row locks on users taken by the user upsert of an open CreateTeam transaction
HoldsUser(q, ext) ==
    /\ w[q].op = "CreateTeam"
    /\ LET ms == TeamInputs[w[q].team].members IN
       \E i \in DOMAIN ms :
          /\ ms[i].user_id = ext
          /\ \/ w[q].pc \in {"ct_members", "ct_commit"}
             \/ w[q].pc = "ct_users" /\ i <= w[q].locked

SetUserIsActive(p, userID, isActive) ==
    /\ w[p].pc = "idle"
    /\ Start(p, [Idle EXCEPT !.pc = "su_update", !.op = "SetUserIsActive",
                           !.user = userID, !.flag = isActive])
    /\ UNCHANGED tables

\* variant: the UPDATE has no WHERE clause
EveryUser(ext) == users

\* the rows the UPDATE matches: WHERE external_id = $2
StatusTargets(ext) == UserByExt(ext)

\* UPDATE users SET is_active = $1 WHERE external_id = $2
UpdateUserStatus(p) ==
    /\ w[p].pc = "su_update"
    /\ LET rows == StatusTargets(w[p].user) IN
       /\ rows # {} => \A q \in Workers \ {p} : ~HoldsUser(q, w[p].user)
       /\ IF rows = {}
          THEN /\ Done(p, "NOT_FOUND")
               /\ UNCHANGED users
          ELSE /\ users' = (users \ rows) \cup
                           {[u EXCEPT !.is_active = w[p].flag] : u \in rows}
               /\ Set(p, [w[p] EXCEPT !.pc = "su_get"])
    /\ UNCHANGED <<users_id_seq, teams, teams_id_seq, team_users,
                   pull_requests, pull_requests_id_seq, pr_reviewers, now, first_merge>>

\* users LEFT JOIN team_users LEFT JOIN teams, scanned into a non-null string
GetUser(p) ==
    /\ w[p].pc = "su_get"
    /\ LET rows == UserByExt(w[p].user) IN
       IF rows = {}
       THEN Done(p, "INTERNAL")
       ELSE \E u \in rows :
              IF TeamsOfUser(u.id) = {}
              THEN Done(p, "INTERNAL")
              ELSE Done(p, "OK")
    /\ UNCHANGED tables

\* ============================================================== POST /team/add
\* variant: the teams upsert keeps no lock on the row of the team
TeamUnlocked(q, name) == FALSE

\* the teams row (or its index entry) written by the upsert of an open
\* CreateTeam transaction
HoldsTeam(q, name) ==
    /\ w[q].op = "CreateTeam"
    /\ w[q].pc \in {"ct_users", "ct_members", "ct_commit"}
    /\ TeamInputs[w[q].team].team_name = name

\* sequence values the open CreateTeam transactions are still going to draw
Reserved(p) ==
    LET pend == {q \in Workers \ {p} : w[q].op = "CreateTeam"
                                        /\ w[q].pc \in {"ct_team", "ct_users"}}
        F[S \in SUBSET pend] ==
            IF S = {} THEN 0
            ELSE LET q == CHOOSE x \in S : TRUE
                 IN Len(TeamInputs[w[q].team].members) + F[S \ {q}]
    IN F[pend]

CreateTeam(p, t) ==
    /\ w[p].pc = "idle"
    /\ users_id_seq + Reserved(p) + Len(TeamInputs[t].members) <= MaxUserSeq
    /\ Start(p, [Idle EXCEPT !.pc = "ct_team", !.op = "CreateTeam", !.team = t])
    /\ UNCHANGED tables

\* INSERT INTO teams (name) ... ON CONFLICT (name) DO UPDATE ... RETURNING id
UpsertTeamRow(p) ==
    /\ w[p].pc = "ct_team"
    /\ LET name == TeamInputs[w[p].team].team_name
           rows == TeamByName(name)
       IN /\ \A q \in Workers \ {p} : ~HoldsTeam(q, name)
          /\ IF rows = {}
             THEN /\ teams_id_seq' = teams_id_seq + 1
                  /\ Set(p, [w[p] EXCEPT !.pc = "ct_users", !.fresh = TRUE,
                                         !.teamID = teams_id_seq + 1])
             ELSE /\ UNCHANGED teams_id_seq
                  /\ \E t \in rows :
                       Set(p, [w[p] EXCEPT !.pc = "ct_users", !.teamID = t.id])
    /\ UNCHANGED <<users, users_id_seq, teams, team_users,
                   pull_requests, pull_requests_id_seq, pr_reviewers, now, first_merge>>

\* variant: the conflict clause refreshes the flag only
FlagOnly(u, m) == [u EXCEPT !.is_active = m.is_active]

\* ON CONFLICT (external_id) DO UPDATE SET name = excluded.name,
\* is_active = excluded.is_active
UpdatedUser(u, m) == [u EXCEPT !.name = m.username, !.is_active = m.is_active]

\* INSERT INTO users (external_id, name, is_active) SELECT * FROM unnest(...)
\* ON CONFLICT (external_id) DO UPDATE ... RETURNING id, external_id.
\* Every proposed row draws a value of the id sequence, used or not.
UpsertUsers(p) ==
    /\ w[p].pc = "ct_users"
    /\ LET ms == TeamInputs[w[p].team].members
           dup == \E i, j \in DOMAIN ms : i # j /\ ms[i].user_id = ms[j].user_id
           old(i) == UserByExt(ms[i].user_id)
       IN /\ \A i \in DOMAIN ms : \A q \in Workers \ {p} : ~HoldsUser(q, ms[i].user_id)
          /\ users_id_seq' = users_id_seq + Len(ms)
          /\ IF dup
             THEN Done(p, "INTERNAL")
             ELSE Set(p, [w[p] EXCEPT
                    !.pc = "ct_members",
                    !.ins = {[id |-> users_id_seq + i,
                              external_id |-> ms[i].user_id,
                              name |-> ms[i].username,
                              is_active |-> ms[i].is_active] :
                                 i \in {k \in DOMAIN ms : old(k) = {}}},
                    !.upd = UNION {{UpdatedUser(u, ms[i]) :
                                       u \in old(i)} : i \in DOMAIN ms}])
    /\ UNCHANGED <<users, teams, teams_id_seq, team_users,
                   pull_requests, pull_requests_id_seq, pr_reviewers, now, first_merge>>

\* The users upsert proposes its rows in the order of the request; each row
\* takes the lock of its external_id (the row's lock, or the index entry of a
\* row not yet committed) and keeps it until the transaction ends.
LockUserRow(p) ==
    /\ w[p].pc = "ct_users"
    /\ LET ms == TeamInputs[w[p].team].members IN
       /\ w[p].locked < Len(ms)
       /\ \A q \in Workers \ {p} : ~HoldsUser(q, ms[w[p].locked + 1].user_id)
       /\ Set(p, [w[p] EXCEPT !.locked = @ + 1])
    /\ UNCHANGED tables

\* the statement of worker p waits for a users row that worker q has locked
WaitsForUser(p, q) ==
    /\ w[p].pc = "ct_users"
    /\ LET ms == TeamInputs[w[p].team].members IN
       /\ w[p].locked < Len(ms)
       /\ HoldsUser(q, ms[w[p].locked + 1].user_id)

\* PostgreSQL finds the cycle of waits and aborts one of the statements in it
\* (SQLSTATE 40P01): "failed to upsert users", the transaction is rolled back.
\* The rows proposed so far, the waiting one included, have drawn their ids.
DeadlockDetected(p) ==
    /\ \E q \in Workers \ {p} : WaitsForUser(p, q) /\ WaitsForUser(q, p)
    /\ users_id_seq' = users_id_seq + w[p].locked + 1
    /\ Done(p, "INTERNAL")
    /\ UNCHANGED <<users, teams, teams_id_seq, team_users,
                   pull_requests, pull_requests_id_seq, pr_reviewers, now, first_merge>>

\* DELETE FROM team_users WHERE team_id = $1, then
\* COPY team_users (team_id, user_id) for every member with a returned id
ReplaceMembers(p) ==
    /\ w[p].pc = "ct_members"
    /\ Set(p, [w[p] EXCEPT !.pc = "ct_commit",
                           !.del = {tu \in team_users : tu.team_id = w[p].teamID},
                           !.picks = {u.id : u \in w[p].ins \cup w[p].upd}])
    /\ UNCHANGED tables

\* variant: the users the request does not list are deleted
ListedOnly(exts) == {}

\* the rows of users the upsert does not propose: no statement touches them
Untouched(exts) == {u \in users : u.external_id \notin exts}

CommitTeam(p) ==
    /\ w[p].pc = "ct_commit"
    /\ LET name == TeamInputs[w[p].team].team_name
           exts == {u.external_id : u \in w[p].ins \cup w[p].upd}
       IN /\ users' = Untouched(exts) \cup w[p].ins \cup w[p].upd
          /\ teams' = IF w[p].fresh
                      THEN teams \cup {[id |-> w[p].teamID, name |-> name]}
                      ELSE teams
          /\ team_users' = (team_users \ w[p].del) \cup
                           {[team_id |-> w[p].teamID, user_id |-> u] : u \in w[p].picks}
    /\ Done(p, "OK")
    /\ UNCHANGED <<users_id_seq, teams_id_seq,
                   pull_requests, pull_requests_id_seq, pr_reviewers, now, first_merge>>


\* ======================================================= logical clock, NOW()
\* workers that are still going to store a reading of NOW()
Stamping(p) ==
    {q \in Workers \ {p} : w[q].pc \in {"cp_exists", "cp_team", "cp_cand",
                                         "cp_insert", "mg_update"}}

ClockLeft(p) == now + Cardinality(Stamping(p)) < MaxClock

\* ====================================================== POST /pullRequest/create
\* an uncommitted INSERT INTO pull_requests holds its external_id in the unique index
HoldsPRKey(q, ext) ==
    /\ w[q].op = "CreatePullRequest"
    /\ w[q].pc \in {"cp_assign", "cp_commit"}
    /\ w[q].pr = ext

\* variant: the query has no LIMIT
WholePool(S, n) == {S}

\* ORDER BY RANDOM() LIMIT n
RandomLimit(S, n) ==
    {T \in SUBSET S : Cardinality(T) = IF Cardinality(S) < n THEN Cardinality(S) ELSE n}

CreatePullRequest(p, pullRequestID, authorID) ==
    /\ w[p].pc = "idle"
    /\ ClockLeft(p)
    /\ IF ParseOk(authorID)
       THEN Start(p, [Idle EXCEPT !.pc = "cp_exists", !.op = "CreatePullRequest",
                                !.pr = pullRequestID, !.user = authorID,
                                !.author = ParseInt(authorID)])
       ELSE Start(p, [Idle EXCEPT !.pc = "done", !.op = "CreatePullRequest",
                                !.pr = pullRequestID, !.user = authorID,
                                !.res = "INTERNAL"])
    /\ UNCHANGED tables

\* SELECT EXISTS(SELECT 1 FROM pull_requests WHERE external_id = $1)
CheckPRExists(p) ==
    /\ w[p].pc = "cp_exists"
    /\ IF PRByExt(w[p].pr) # {}
       THEN Done(p, "PR_EXISTS")
       ELSE Set(p, [w[p] EXCEPT !.pc = "cp_team"])
    /\ UNCHANGED tables

\* SELECT team_id FROM team_users WHERE user_id = $1 LIMIT 1
AuthorTeam(p) ==
    /\ w[p].pc = "cp_team"
    /\ IF TeamsOfUser(w[p].author) = {}
       THEN Done(p, "NOT_FOUND")
       ELSE \E t \in TeamsOfUser(w[p].author) :
              Set(p, [w[p] EXCEPT !.pc = "cp_cand", !.teamID = t])
    /\ UNCHANGED tables

\* up to 2 random active members of the team, the author excluded
PickReviewers(p) ==
    /\ w[p].pc = "cp_cand"
    /\ \E T \in RandomLimit(ActiveTeammates(w[p].teamID, w[p].author), 2) :
         Set(p, [w[p] EXCEPT !.pc = "cp_insert", !.picks = T])
    /\ UNCHANGED tables

\* variant: the SQLSTATE is not looked at, the error is answered 500
GenericFailure == "INTERNAL"

\* pgconn.PgError with Code "23505" becomes ErrAlreadyExists, answered 409
UniqueViolation == "PR_EXISTS"

\* UNIQUE (external_id) of pull_requests
ViolatesPRKey(ext) == PRByExt(ext) # {}

\* INSERT INTO pull_requests (external_id, title, author_id, status)
InsertPR(p) ==
    /\ w[p].pc = "cp_insert"
    /\ \A q \in Workers \ {p} : ~HoldsPRKey(q, w[p].pr)
    /\ IF ViolatesPRKey(w[p].pr)
       THEN /\ Done(p, UniqueViolation)
            /\ UNCHANGED <<pull_requests_id_seq, now>>
       ELSE /\ pull_requests_id_seq' = pull_requests_id_seq + 1
            /\ now' = now + 1
            /\ Set(p, [w[p] EXCEPT !.pc = "cp_assign",
                                   !.prid = pull_requests_id_seq + 1,
                                   !.ts = now + 1])
    /\ UNCHANGED <<users, users_id_seq, teams, teams_id_seq, team_users,
                   pull_requests, pr_reviewers, first_merge>>

\* INSERT INTO pr_reviewers (pr_id, reviewer_id) for every chosen reviewer
AssignReviewers(p) ==
    /\ w[p].pc = "cp_assign"
    /\ Set(p, [w[p] EXCEPT !.pc = "cp_commit",
                 !.ins = {[pr_id |-> w[p].prid, reviewer_id |-> r] : r \in w[p].picks}])
    /\ UNCHANGED tables

\* variant: the rows written by an aborted transaction stay
KeptOnAbort(rows) == rows

\* defer tx.Rollback(ctx): nothing written by an aborted transaction stays
AfterRollback(rows) == {}

\* the row written by INSERT INTO pull_requests, not yet committed
NewPR(p) ==
    [id |-> w[p].prid, external_id |-> w[p].pr, author_id |-> w[p].author,
     status |-> StatusOpen, created_at |-> w[p].ts, merged_at |-> 0]

\* an INSERT INTO pr_reviewers returns an error: CreatePR returns it and the
\* deferred Rollback undoes the INSERT INTO pull_requests
AssignReviewersFails(p) ==
    /\ w[p].pc = "cp_assign"
    /\ w[p].picks # {}
    /\ pull_requests' = pull_requests \cup AfterRollback({NewPR(p)})
    /\ Done(p, "INTERNAL")
    /\ UNCHANGED <<users, users_id_seq, teams, teams_id_seq, team_users,
                   pull_requests_id_seq, pr_reviewers, now, first_merge>>

CommitPR(p) ==
    /\ w[p].pc = "cp_commit"
    /\ pull_requests' = pull_requests \cup {NewPR(p)}
    /\ pr_reviewers' = pr_reviewers (+) SetToBag(w[p].ins)
    /\ Set(p, [w[p] EXCEPT !.pc = "done", !.res = "OK",
                           !.ret = {FormatInt(r) : r \in w[p].picks}])
    /\ UNCHANGED <<users, users_id_seq, teams, teams_id_seq, team_users,
                   pull_requests_id_seq, now, first_merge>>

\* ======================================================= POST /pullRequest/merge
\* SELECT reviewer_id FROM pr_reviewers WHERE pr_id = $1, formatted
getPRReviewers(prID) == {FormatInt(r) : r \in ReviewersOf(prID)}

MergePullRequest(p, pullRequestID) ==
    /\ w[p].pc = "idle"
    /\ ClockLeft(p)
    /\ Start(p, [Idle EXCEPT !.pc = "mg_update", !.op = "MergePullRequest",
                             !.pr = pullRequestID,
                             !.pre = first_merge[pullRequestID] # NoReport])
    /\ UNCHANGED tables

\* variant: the UPDATE flips the status
ToggledRow(r, t) ==
    [r EXCEPT !.status = IF r.status = StatusMerged THEN StatusOpen ELSE StatusMerged,
              !.merged_at = t]

\* SET status = $1, merged_at = NOW(), with $1 = models.StatusMerged
MergedRow(r, t) == [r EXCEPT !.status = StatusMerged, !.merged_at = t]

\* the handler answers 200 with the PR that MergePR returned
Report(p, reviewers) ==
    /\ Set(p, [w[p] EXCEPT !.pc = "done", !.res = "OK", !.ret = reviewers])
    /\ first_merge' = IF first_merge[w[p].pr] = NoReport
                      THEN [first_merge EXCEPT ![w[p].pr] = reviewers]
                      ELSE first_merge

\* variant: the UPDATE carries the condition status = 'OPEN'
OpenTargets(ext) == {r \in PRByExt(ext) : r.status = StatusOpen}

\* the rows the UPDATE matches: WHERE external_id = $2, whatever the status
MergeTargets(ext) == PRByExt(ext)

\* UPDATE pull_requests SET ... WHERE external_id = $2 RETURNING id, ...
MergePR(p) ==
    /\ w[p].pc = "mg_update"
    /\ LET rows == MergeTargets(w[p].pr) IN
       IF rows = {}
       THEN /\ Set(p, [w[p] EXCEPT !.pc = "mg_get"])
            /\ UNCHANGED <<pull_requests, now>>
       ELSE /\ pull_requests' = (pull_requests \ rows) \cup
                 {MergedRow(r, now + 1) : r \in rows}
            /\ now' = now + 1
            /\ \E r \in rows :
                 Set(p, [w[p] EXCEPT !.pc = "mg_reviewers", !.prid = r.id,
                                     !.ts = now + 1])
    /\ UNCHANGED <<users, users_id_seq, teams, teams_id_seq, team_users,
                   pull_requests_id_seq, pr_reviewers, first_merge>>

\* the reviewers of the merged PR are read after the UPDATE has committed
MergeReviewers(p) ==
    /\ w[p].pc = "mg_reviewers"
    /\ Report(p, getPRReviewers(w[p].prid))
    /\ UNCHANGED <<users, users_id_seq, teams, teams_id_seq, team_users,
                   pull_requests, pull_requests_id_seq, pr_reviewers, now>>

\* no row was updated: GetPR decides between "already merged" and "not found"
MergeGetPR(p) ==
    /\ w[p].pc = "mg_get"
    /\ LET rows == PRByExt(w[p].pr) IN
       IF rows = {}
       THEN Done(p, "NOT_FOUND")
       ELSE \E r \in rows :
              Set(p, [w[p] EXCEPT !.pc = "mg_get_rev", !.prid = r.id,
                                  !.ts = r.merged_at, !.status = r.status])
    /\ UNCHANGED tables

MergeGetPRReviewers(p) ==
    /\ w[p].pc = "mg_get_rev"
    /\ IF w[p].status = StatusMerged
       THEN Report(p, getPRReviewers(w[p].prid))
       ELSE Done(p, "NOT_FOUND") /\ UNCHANGED first_merge
    /\ UNCHANGED <<users, users_id_seq, teams, teams_id_seq, team_users,
                   pull_requests, pull_requests_id_seq, pr_reviewers, now>>


\* ===================================================== POST /pullRequest/reassign
Key(prID, reviewerID) == [pr_id |-> prID, reviewer_id |-> reviewerID]

\* row locks and unique-index entries of an open reassignment transaction
HoldsDelete(q, k) ==
    /\ w[q].op = "ReassignReviewer"
    /\ w[q].pc \in {"ra_insert", "ra_commit"}
    /\ k \in w[q].del

HoldsInsert(q, k) ==
    /\ w[q].op = "ReassignReviewer"
    /\ w[q].pc = "ra_commit"
    /\ k \in w[q].ins

\* ErrNotFound leaves the repository: the handler goes on to its secondary read
NotFound(p, why) == Set(p, [w[p] EXCEPT !.pc = "h_get", !.cause = why])

\* the named user holds a reviewer slot of the PR
Assigned(pullRequestID, userID) ==
    \E r \in PRByExt(pullRequestID), u \in UserByExt(userID) :
        BagIn([pr_id |-> r.id, reviewer_id |-> u.id], pr_reviewers)

\* the request arrives at a merged PR and names one of its reviewers
Arrival(pullRequestID, oldUserID) ==
    /\ \E r \in PRByExt(pullRequestID) : r.status = StatusMerged
    /\ Assigned(pullRequestID, oldUserID)

ReassignReviewer(p, pullRequestID, oldUserID) ==
    /\ w[p].pc = "idle"
    /\ Start(p, [Idle EXCEPT !.pc = "ra_user", !.op = "ReassignReviewer",
                             !.pr = pullRequestID, !.user = oldUserID,
                             !.pre = Arrival(pullRequestID, oldUserID)])
    /\ UNCHANGED tables

\* SELECT id FROM users WHERE external_id = $1
OldReviewer(p) ==
    /\ w[p].pc = "ra_user"
    /\ IF UserByExt(w[p].user) = {}
       THEN NotFound(p, "user")
       ELSE \E u \in UserByExt(w[p].user) :
              Set(p, [w[p] EXCEPT !.pc = "ra_pr", !.uid = u.id])
    /\ UNCHANGED tables

\* variant: the status of the PR is not checked
MergedIgnored(status) == FALSE

\* if status == models.StatusMerged
AlreadyMerged(status) == status = StatusMerged

\* SELECT id, status, author_id FROM pull_requests WHERE external_id = $1
CheckPRStatus(p) ==
    /\ w[p].pc = "ra_pr"
    /\ IF PRByExt(w[p].pr) = {}
       THEN NotFound(p, "pr")
       ELSE \E r \in PRByExt(w[p].pr) :
              IF AlreadyMerged(r.status)
              THEN Done(p, "PR_MERGED")
              ELSE Set(p, [w[p] EXCEPT !.pc = "ra_exists", !.prid = r.id,
                                       !.author = r.author_id])
    /\ UNCHANGED tables

\* SELECT EXISTS(SELECT 1 FROM pr_reviewers WHERE pr_id = $1 AND reviewer_id = $2)
CheckReviewerAssigned(p) ==
    /\ w[p].pc = "ra_exists"
    /\ IF BagIn(Key(w[p].prid, w[p].uid), pr_reviewers)
       THEN Set(p, [w[p] EXCEPT !.pc = "ra_team"])
       ELSE NotFound(p, "not_assigned")
    /\ UNCHANGED tables

\* SELECT team_id FROM team_users WHERE user_id = $1 LIMIT 1; no row is an
\* error that is not ErrNotFound
ReassignAuthorTeam(p) ==
    /\ w[p].pc = "ra_team"
    /\ IF TeamsOfUser(w[p].author) = {}
       THEN Done(p, "INTERNAL")
       ELSE \E t \in TeamsOfUser(w[p].author) :
              Set(p, [w[p] EXCEPT !.pc = "ra_cur", !.teamID = t])
    /\ UNCHANGED tables

\* SELECT reviewer_id FROM pr_reviewers WHERE pr_id = $1
CurrentReviewers(p) ==
    /\ w[p].pc = "ra_cur"
    /\ Set(p, [w[p] EXCEPT !.pc = "ra_cand", !.cur = ReviewersOf(w[p].prid)])
    /\ UNCHANGED tables

\* an active member of the team, not the author, not a current reviewer
Candidates(teamID, authorID, currentReviewers) ==
    ActiveTeammates(teamID, authorID) \ currentReviewers

FindCandidate(p) ==
    /\ w[p].pc = "ra_cand"
    /\ LET C == Candidates(w[p].teamID, w[p].author, w[p].cur) IN
       IF C = {}
       THEN NotFound(p, "no_candidate")
       ELSE \E T \in RandomLimit(C, 1) :
              Set(p, [w[p] EXCEPT !.pc = "ra_delete", !.picks = T,
                        \* history: the chosen user holds a slot as the query runs
                        !.stale = T \cap ReviewersOf(w[p].prid) # {}])
    /\ UNCHANGED tables

\* variant: the DELETE matches no row
NoRowsMatched(k) == {}

\* the rows matched by WHERE pr_id = $1 AND reviewer_id = $2
MatchedRows(k) == IF BagIn(k, pr_reviewers) THEN {k} ELSE {}

\* DELETE FROM pr_reviewers WHERE pr_id = $1 AND reviewer_id = $2;
\* the number of deleted rows is not looked at
RemoveOldReviewer(p) ==
    /\ w[p].pc = "ra_delete"
    /\ LET k == Key(w[p].prid, w[p].uid) IN
       /\ \A q \in Workers \ {p} : ~HoldsDelete(q, k)
       /\ Set(p, [w[p] EXCEPT !.pc = "ra_insert",
                    !.del = MatchedRows(k)])
    /\ UNCHANGED tables

\* variant: pr_reviewers without its primary key
NoReviewerKey(k) == FALSE

\* PRIMARY KEY (pr_id, reviewer_id)
ViolatesReviewerKey(k) == BagIn(k, pr_reviewers)

\* INSERT INTO pr_reviewers (pr_id, reviewer_id) VALUES ($1, $2)
AddNewReviewer(p) ==
    /\ w[p].pc = "ra_insert"
    /\ \E n \in w[p].picks :
         LET k == Key(w[p].prid, n) IN
         /\ \A q \in Workers \ {p} : ~HoldsInsert(q, k) /\ ~HoldsDelete(q, k)
         /\ IF ViolatesReviewerKey(k)
            THEN Done(p, "INTERNAL")
            ELSE Set(p, [w[p] EXCEPT !.pc = "ra_commit", !.ins = {k}])
    \* the error return rolls the DELETE back
    /\ pr_reviewers' = [k \in DOMAIN pr_reviewers \ 
                            (IF w'[p].pc = "done" THEN AfterRollback(w[p].del) ELSE {})
                          |-> pr_reviewers[k]]
    /\ UNCHANGED <<users, users_id_seq, teams, teams_id_seq, team_users,
                   pull_requests, pull_requests_id_seq, now, first_merge>>

CommitReassign(p) ==
    /\ w[p].pc = "ra_commit"
    /\ pr_reviewers' =
         [k \in DOMAIN pr_reviewers \ w[p].del |-> pr_reviewers[k]]
            (+) SetToBag(w[p].ins)
    /\ Set(p, [w[p] EXCEPT !.pc = "ra_ok_get",
                           !.ret = {FormatInt(n) : n \in w[p].picks}])
    /\ UNCHANGED <<users, users_id_seq, teams, teams_id_seq, team_users,
                   pull_requests, pull_requests_id_seq, now, first_merge>>

\* GetPR for the response of a successful reassignment
UpdatedPR(p) ==
    /\ w[p].pc = "ra_ok_get"
    /\ IF PRByExt(w[p].pr) = {}
       THEN Done(p, "INTERNAL")
       ELSE \E r \in PRByExt(w[p].pr) :
              Set(p, [w[p] EXCEPT !.pc = "ra_ok_rev", !.prid = r.id,
                                  !.status = r.status])
    /\ UNCHANGED tables

UpdatedPRReviewers(p) ==
    /\ w[p].pc = "ra_ok_rev"
    /\ Set(p, [w[p] EXCEPT !.pc = "done", !.res = "OK",
                           !.cur = ReviewersOf(w[p].prid)])
    /\ UNCHANGED tables

\* secondary read of the handler after ErrNotFound: GetPR, first statement
SecondaryGetPR(p) ==
    /\ w[p].pc = "h_get"
    /\ IF PRByExt(w[p].pr) = {}
       THEN Done(p, "NOT_FOUND")
       ELSE \E r \in PRByExt(w[p].pr) :
              Set(p, [w[p] EXCEPT !.pc = "h_rev", !.prid = r.id])
    /\ UNCHANGED tables

\* GetPR, second statement, and the search for old_user_id in AssignedReviewers
SecondaryReviewers(p) ==
    /\ w[p].pc = "h_rev"
    /\ IF w[p].user \in getPRReviewers(w[p].prid)
       THEN Done(p, "NO_CANDIDATE")
       ELSE Done(p, "NOT_ASSIGNED")
    /\ UNCHANGED tables

\* ========================================================= GET /users/getReview
\* the columns of SELECT DISTINCT pr.external_id, pr.title, pr.author_id, pr.status
SelectList == {"external_id", "title", "author_id", "status"}

\* ORDER BY pr.created_at DESC
OrderBy == "created_at"

\* PostgreSQL refuses a SELECT DISTINCT whose ORDER BY expression is not in the
\* select list (SQLSTATE 42P10); the statement returns an error and no row
StatementRejected == OrderBy \notin SelectList

\* pull_requests JOIN pr_reviewers WHERE reviewer_id = $1, one row per PR
PRsOfReviewer(rID) == {r \in pull_requests : BagIn(Key(r.id, rID), pr_reviewers)}

\* the external ids of the PRs in S, latest created_at first
NewestFirst(S) ==
    CHOOSE q \in [1..Cardinality(S) -> {r.external_id : r \in S}] :
        /\ \A r \in S : \E i \in DOMAIN q : q[i] = r.external_id
        /\ \A i, j \in DOMAIN q : i < j =>
              \E a, b \in S : /\ a.external_id = q[i] /\ b.external_id = q[j]
                              /\ a.created_at >= b.created_at

\* GetPRsByReviewer: strconv.ParseInt on the user id, then one query; the
\* handler answers 500 for ErrInvalidInput and for a query error
GetUserReviews(p, userID) ==
    /\ w[p].pc = "idle"
    /\ LET r == [Idle EXCEPT !.pc = "done", !.op = "GetUserReviews", !.user = userID]
       IN IF ~ParseOk(userID)
          THEN Start(p, [r EXCEPT !.res = "INTERNAL"])
          ELSE IF StatementRejected
               THEN Start(p, [r EXCEPT !.res = "INTERNAL"])
               ELSE Start(p, [r EXCEPT !.res = "OK",
                                !.list = NewestFirst(PRsOfReviewer(ParseInt(userID)))])
    /\ UNCHANGED tables

\* ================================================================ specification
Next ==
    \E p \in Workers :
        \/ \E t \in MainTeams : CreateTeam(p, t)
        \/ UpsertTeamRow(p)
        \/ UpsertUsers(p)
        \/ ReplaceMembers(p)
        \/ CommitTeam(p)
        \/ \E u \in StatusInputs, b \in BOOLEAN : SetUserIsActive(p, u, b)
        \/ UpdateUserStatus(p)
        \/ GetUser(p)
        \/ \E pr \in PRIds, a \in AuthorInputs : CreatePullRequest(p, pr, a)
        \/ CheckPRExists(p)
        \/ AuthorTeam(p)
        \/ PickReviewers(p)
        \/ InsertPR(p)
        \/ AssignReviewers(p)
        \/ CommitPR(p)
        \/ \E pr \in PRIds : MergePullRequest(p, pr)
        \/ MergePR(p)
        \/ MergeReviewers(p)
        \/ MergeGetPR(p)
        \/ MergeGetPRReviewers(p)
        \/ \E pr \in PRIds, u \in UserInputs : ReassignReviewer(p, pr, u)
        \/ OldReviewer(p)
        \/ CheckPRStatus(p)
        \/ CheckReviewerAssigned(p)
        \/ ReassignAuthorTeam(p)
        \/ CurrentReviewers(p)
        \/ FindCandidate(p)
        \/ RemoveOldReviewer(p)
        \/ AddNewReviewer(p)
        \/ CommitReassign(p)
        \/ UpdatedPR(p)
        \/ UpdatedPRReviewers(p)
        \/ SecondaryGetPR(p)
        \/ SecondaryReviewers(p)
        \/ Return(p)

Spec == Init /\ [][Next]_vars

\* ------------------------------------------- the statements of every handler
TeamStatements(p) ==
    \/ UpsertTeamRow(p)
    \/ UpsertUsers(p)
    \/ ReplaceMembers(p)
    \/ CommitTeam(p)

StatusStatements(p) ==
    \/ UpdateUserStatus(p)
    \/ GetUser(p)

CreateStatements(p) ==
    \/ CheckPRExists(p)
    \/ AuthorTeam(p)
    \/ PickReviewers(p)
    \/ InsertPR(p)
    \/ AssignReviewers(p)
    \/ CommitPR(p)

MergeStatements(p) ==
    \/ MergePR(p)
    \/ MergeReviewers(p)
    \/ MergeGetPR(p)
    \/ MergeGetPRReviewers(p)

ReassignStatements(p) ==
    \/ OldReviewer(p)
    \/ CheckPRStatus(p)
    \/ CheckReviewerAssigned(p)
    \/ ReassignAuthorTeam(p)
    \/ CurrentReviewers(p)
    \/ FindCandidate(p)
    \/ RemoveOldReviewer(p)
    \/ AddNewReviewer(p)
    \/ CommitReassign(p)
    \/ UpdatedPR(p)
    \/ UpdatedPRReviewers(p)
    \/ SecondaryGetPR(p)
    \/ SecondaryReviewers(p)

\* ------------------------------------------------ a team of three, two teams
\* The same handlers on a smaller data set: a team of three members whose
\* external ids differ from the ids the sequence gives them, and a second team
\* that lists one of them under another name, deactivated.
SmallTeams == {3, 4}
SmallAuthors == {"1"}
SmallUsers == {"1"}
SmallStatus == {"u3"}

SmallNext ==
    \E p \in Workers :
        \/ \E t \in SmallTeams : CreateTeam(p, t)
        \/ TeamStatements(p)
        \/ \E u \in SmallStatus, b \in BOOLEAN : SetUserIsActive(p, u, b)
        \/ StatusStatements(p)
        \/ \E pr \in PRIds, a \in SmallAuthors : CreatePullRequest(p, pr, a)
        \/ CreateStatements(p)
        \/ \E pr \in PRIds : MergePullRequest(p, pr)
        \/ MergeStatements(p)
        \/ \E pr \in PRIds, u \in SmallUsers : ReassignReviewer(p, pr, u)
        \/ ReassignStatements(p)
        \/ Return(p)

SpecSmall == Init /\ [][SmallNext]_vars

\* ------------------------------------- creation of pull requests, with faults
\* Team upserts, status changes and PR creation on a team whose members can all
\* be deactivated; an INSERT INTO pr_reviewers may fail.  The author is named by
\* an external id that is also the author's internal id.
CreateTeams == {5}
CreateAuthors == {"1"}
CreateStatus == {"2", "u3", "u4"}

CreateNext ==
    \E p \in Workers :
        \/ \E t \in CreateTeams : CreateTeam(p, t)
        \/ TeamStatements(p)
        \/ \E u \in CreateStatus, b \in BOOLEAN : SetUserIsActive(p, u, b)
        \/ StatusStatements(p)
        \/ \E pr \in PRIds, a \in CreateAuthors : CreatePullRequest(p, pr, a)
        \/ CreateStatements(p)
        \/ AssignReviewersFails(p)
        \/ Return(p)

SpecCreate == Init /\ [][CreateNext]_vars

\* --------------------------------------------- reassignments of every reviewer
\* One team of four, one PR of its first member, and reassignments that may
\* name any of the three other members.
SwapUsers == {"2", "u3", "u4"}

SwapNext ==
    \E p \in Workers :
        \/ \E t \in CreateTeams : CreateTeam(p, t)
        \/ TeamStatements(p)
        \/ \E pr \in PRIds, a \in CreateAuthors : CreatePullRequest(p, pr, a)
        \/ CreateStatements(p)
        \/ \E pr \in PRIds, u \in SwapUsers : ReassignReviewer(p, pr, u)
        \/ ReassignStatements(p)
        \/ Return(p)

SpecSwap == Init /\ [][SwapNext]_vars

\* ------------------------------------------------------- rosters that change
\* Team upserts and status changes only: a team of three that is upserted
\* again with one member under another name, and a second team that lists the
\* same user, deactivated.
RosterTeams == {3, 4, 6}
RosterStatus == {"1"}

RosterNext ==
    \E p \in Workers :
        \/ \E t \in RosterTeams : CreateTeam(p, t)
        \/ TeamStatements(p)
        \/ \E u \in RosterStatus, b \in BOOLEAN : SetUserIsActive(p, u, b)
        \/ StatusStatements(p)
        \/ Return(p)

SpecRoster == Init /\ [][RosterNext]_vars

\* ------------------------------------------------------- two PRs and their lists
\* One team of four, two PRs of its first member, merges, reassignments of one
\* reviewer of the first PR and the review lists of two members.
ListUsers == {"2"}
ReviewUsers == {"2", "u3"}

ListNext ==
    \E p \in Workers :
        \/ \E t \in CreateTeams : CreateTeam(p, t)
        \/ TeamStatements(p)
        \/ \E pr \in AllPRIds, a \in CreateAuthors : CreatePullRequest(p, pr, a)
        \/ CreateStatements(p)
        \/ \E pr \in AllPRIds : MergePullRequest(p, pr)
        \/ MergeStatements(p)
        \/ \E pr \in PRIds, u \in ListUsers : ReassignReviewer(p, pr, u)
        \/ ReassignStatements(p)
        \/ \E u \in ReviewUsers : GetUserReviews(p, u)
        \/ Return(p)

SpecList == Init /\ [][ListNext]_vars

\* ------------------------------------------------- an author dropped from a team
\* A team of three that is upserted again with one member, so that the other
\* two are left in no team; a PR, its merge, reassignments that name a member
\* or nobody, and the status of a dropped member.
DropTeams == {3, 6}
DropUsers == {"1", "9"}
DropStatus == {"u3"}

DropNext ==
    \E p \in Workers :
        \/ \E t \in DropTeams : CreateTeam(p, t)
        \/ TeamStatements(p)
        \/ \E u \in DropStatus, b \in BOOLEAN : SetUserIsActive(p, u, b)
        \/ StatusStatements(p)
        \/ \E pr \in PRIds, a \in SmallAuthors : CreatePullRequest(p, pr, a)
        \/ CreateStatements(p)
        \/ \E pr \in PRIds : MergePullRequest(p, pr)
        \/ MergeStatements(p)
        \/ \E pr \in PRIds, u \in DropUsers : ReassignReviewer(p, pr, u)
        \/ ReassignStatements(p)
        \/ Return(p)

SpecDrop == Init /\ [][DropNext]_vars

\* --------------------------------------------- two teams that share their users
\* Two teams that list the same two users in opposite order, with the users
\* upsert taking its row locks one proposed row after the other; a PR of the
\* first user, its merge, and the status of that user.
LockTeams == {7, 8}
LockStatus == {"1"}

LockNext ==
    \E p \in Workers :
        \/ \E t \in LockTeams : CreateTeam(p, t)
        \/ TeamStatements(p)
        \/ LockUserRow(p)
        \/ DeadlockDetected(p)
        \/ \E u \in LockStatus, b \in BOOLEAN : SetUserIsActive(p, u, b)
        \/ StatusStatements(p)
        \/ \E pr \in PRIds, a \in SmallAuthors : CreatePullRequest(p, pr, a)
        \/ CreateStatements(p)
        \/ \E pr \in PRIds : MergePullRequest(p, pr)
        \/ MergeStatements(p)
        \/ Return(p)

SpecLock == Init /\ [][LockNext]_vars

\* every statement of a request that has started is eventually executed when
\* it can be; the arrival of requests is not forced
LockStatements(p) ==
    \/ TeamStatements(p)
    \/ LockUserRow(p)
    \/ DeadlockDetected(p)
    \/ StatusStatements(p)
    \/ CreateStatements(p)
    \/ MergeStatements(p)

FairLock == SpecLock /\ \A p \in Workers : WF_vars(LockStatements(p))


\* =================================================================== properties
Finished(p, op) == w[p].pc = "done" /\ w[p].op = op

\* the step in which worker p answers a request of kind op
Finishes(p, op) == w[p].op = op /\ w[p].pc # "done" /\ w'[p].pc = "done"

\* the step of worker p from pc a to pc b
Step(p, a, b) == w[p].pc = a /\ w'[p].pc = b

\* C1: in every reachable state no pull request has its own author among its
\* reviewers.
C1_AuthorNeverReviewer ==
    \A r \in pull_requests : r.author_id \notin ReviewersOf(r.id)

\* a PR with two reviewers on which a reassignment has succeeded
C1_Witness ==
    \E p \in Workers, r \in pull_requests :
        /\ Finished(p, "ReassignReviewer") /\ w[p].res = "OK"
        /\ r.external_id = w[p].pr
        /\ Cardinality(ReviewersOf(r.id)) = 2

\* a CreatePR call that got as far as its INSERT INTO pull_requests
ReachedInsert(p) == Finished(p, "CreatePullRequest") /\ w[p].teamID # 0

\* C2: of two CreatePR calls with the same external id that both passed the
\* existence pre-check, exactly one succeeds and the other is answered
\* AlreadyExists, never a generic storage error; there is at most one PR
\* record per external id.
C2_OneCreationPerId ==
    /\ \A e \in PRIds : Cardinality(PRByExt(e)) <= 1
    /\ \A p \in Workers : ReachedInsert(p) => w[p].res \in {"OK", "PR_EXISTS"}
    /\ \A p, q \in Workers :
          (p # q /\ ReachedInsert(p) /\ ReachedInsert(q) /\ w[p].pr = w[q].pr)
             => {w[p].res, w[q].res} = {"OK", "PR_EXISTS"}

\* both workers passed the pre-check, one created the PR, the other was refused
C2_Witness ==
    \E p, q \in Workers :
        /\ p # q /\ ReachedInsert(p) /\ ReachedInsert(q) /\ w[p].pr = w[q].pr
        /\ w[p].res = "OK" /\ w[q].res = "PR_EXISTS"
        /\ PRByExt(w[p].pr) # {}

\* C3: a PR is OPEN when it is created, its status changes only from OPEN to
\* MERGED and only in the UPDATE of Merge, and a MERGED PR stays MERGED.
C3_StatusMonotonic ==
    [][ /\ \A r \in pull_requests : \E r2 \in pull_requests' :
              /\ r2.id = r.id
              /\ r.status = StatusMerged => r2.status = StatusMerged
              /\ r2.status # r.status =>
                    /\ r.status = StatusOpen /\ r2.status = StatusMerged
                    /\ \E p \in Workers : Step(p, "mg_update", "mg_reviewers")
        /\ \A r2 \in pull_requests' :
              (\A r \in pull_requests : r.id # r2.id) => r2.status = StatusOpen
      ]_vars

\* a PR that has been merged a second time and is MERGED
C3_Witness ==
    \E r \in pull_requests :
        /\ r.status = StatusMerged
        /\ r.merged_at > r.created_at + 1

\* C4: a Merge that arrives after a first Merge of the PR has been answered
\* is answered with success and reports the reviewer set that the first one
\* reported.
C4_SecondMergeSameReport ==
    [][ \A p \in Workers :
          (Finishes(p, "MergePullRequest") /\ w[p].pre)
             => w'[p].res = "OK" /\ w'[p].ret = first_merge[w[p].pr] ]_vars

\* C5: Merge of a PR that is MERGED leaves its stored record, the merge
\* timestamp included, as it is.
C5_MergedRecordKept ==
    [][ \A r \in pull_requests : r.status = StatusMerged => r \in pull_requests' ]_vars

\* C6: a reassignment that commits and overlaps with no other reassignment
\* removes the old reviewer, adds the returned new one, keeps every other
\* reviewer and the size of the reviewer set.
C6_ReassignSwapsOne ==
    [][ \A p \in Workers :
          (Step(p, "ra_commit", "ra_ok_get") /\ ~w[p].lapR) =>
             \E n \in w[p].picks :
                /\ w[p].uid \in ReviewersOf(w[p].prid)
                /\ n \notin ReviewersOf(w[p].prid)
                /\ ReviewersOf(w[p].prid)' = (ReviewersOf(w[p].prid) \ {w[p].uid}) \cup {n}
                /\ Cardinality(ReviewersOf(w[p].prid)') = Cardinality(ReviewersOf(w[p].prid))
                /\ w'[p].ret = {FormatInt(n)}
                /\ FormatInt(n) \in getPRReviewers(w[p].prid)'
      ]_vars

\* a reassignment that no other reassignment overlapped has succeeded
C6_Witness ==
    \E p \in Workers :
        Finished(p, "ReassignReviewer") /\ w[p].res = "OK" /\ ~w[p].lapR

\* C7: once a PR is MERGED its reviewer set never changes.
C7_MergedReviewersFrozen ==
    [][ \A r \in pull_requests :
          r.status = StatusMerged => ReviewersOf(r.id)' = ReviewersOf(r.id) ]_vars

C9_MergedRefused ==
    \A p \in Workers :
        (w[p].op = "ReassignReviewer" /\ w[p].pre) =>
            /\ w[p].pc \in {"ra_user", "ra_pr", "done"}
            /\ w[p].pc = "done" => w[p].res = "PR_MERGED"
            /\ w[p].del = {} /\ w[p].ins = {} /\ w[p].ret = {}

C9_Witness ==
    \E p \in Workers :
        /\ Finished(p, "ReassignReviewer") /\ w[p].pre
        /\ w[p].res = "PR_MERGED"

\* C10: a reassignment on an OPEN PR that names an existing user who is not
\* one of its reviewers is answered NotAssigned (no other request is served
\* between the arrival of the request and its answer).
C10_NotAssignedReported ==
    [][ \A p \in Workers :
          ( /\ Finishes(p, "ReassignReviewer") /\ ~w[p].lap /\ w[p].ret = {}
            /\ \E r \in PRByExt(w[p].pr) : r.status = StatusOpen
            /\ UserByExt(w[p].user) # {}
            /\ ~Assigned(w[p].pr, w[p].user) )
          => w'[p].res = "NOT_ASSIGNED" ]_vars

\* the author's team (every team the author is listed in) has no active member
\* left who is neither the author nor a reviewer of the PR
NoCandidateLeft(r) ==
    /\ TeamsOfUser(r.author_id) # {}
    /\ \A t \in TeamsOfUser(r.author_id) :
          Candidates(t, r.author_id, ReviewersOf(r.id)) = {}

\* C11: a reassignment on an OPEN PR that names one of its reviewers, while the
\* author's team has no candidate left, is answered NoCandidate and leaves the
\* reviewers as they are (no other request is served between the arrival of
\* the request and its answer).
C11_NoCandidateReported ==
    [][ \A p \in Workers :
          ( /\ Finishes(p, "ReassignReviewer") /\ ~w[p].lap /\ w[p].ret = {}
            /\ \E r \in PRByExt(w[p].pr) : r.status = StatusOpen /\ NoCandidateLeft(r)
            /\ Assigned(w[p].pr, w[p].user) )
          => w'[p].res = "NO_CANDIDATE" /\ UNCHANGED pr_reviewers ]_vars

\* the active users that share a team with the user named authorID, that user
\* left out
Eligible(authorID) ==
    {u.id : u \in {x \in users :
        /\ x.is_active
        /\ x.external_id # authorID
        /\ \E a \in UserByExt(authorID), ta \in team_users, tx \in team_users :
              /\ ta.user_id = a.id /\ tx.user_id = x.id
              /\ ta.team_id = tx.team_id}}

Smaller(a, b) == IF a < b THEN a ELSE b

C13_NewReviewerEligible ==
    [][ \A p \in Workers :
          /\ Step(p, "ra_cand", "ra_delete") =>
                \A n \in w'[p].picks :
                   /\ \E u \in users : u.id = n /\ u.is_active
                   /\ \E t \in TeamsOfUser(w[p].author) :
                         [team_id |-> t, user_id |-> n] \in team_users
                   /\ n # w[p].author
                   /\ n \notin w[p].cur
          /\ Step(p, "ra_commit", "ra_ok_get") => ~w[p].stale
      ]_vars

\* C14: when CreatePR or a reassignment commits an assignment, the assigned
\* user is, in the database as it is at that commit, active and a member of a
\* team of the PR's author.
C14_ActiveAtCommit ==
    [][ \A p \in Workers :
          (Step(p, "cp_commit", "done") \/ Step(p, "ra_commit", "ra_ok_get")) =>
             \A k \in w[p].ins :
                /\ \E u \in users : u.id = k.reviewer_id /\ u.is_active
                /\ \E t \in TeamsOfUser(w[p].author) :
                      [team_id |-> t, user_id |-> k.reviewer_id] \in team_users
      ]_vars

\* the user named authorID is listed in no team (or does not exist)
NoTeam(authorID) == \A u \in UserByExt(authorID) : TeamsOfUser(u.id) = {}

\* C15: a CreatePR with a fresh PR id whose author belongs to no team is
\* answered NotFound, at the latest when the author's team is looked up, and
\* stores neither a PR nor an assignment.
C15_NoTeamNotFound ==
    [][ \A p \in Workers :
          ( /\ w'[p].op = "CreatePullRequest" /\ w'[p] # w[p]
            /\ w[p].pc = "cp_team" \/ (w[p].pc = "idle" /\ w'[p].pc = "done")
            /\ PRByExt(w'[p].pr) = {}
            /\ NoTeam(w'[p].user) )
          => /\ w'[p].pc = "done" /\ w'[p].res = "NOT_FOUND"
             /\ UNCHANGED <<pull_requests, pr_reviewers>> ]_vars

\* C16: a CreatePR that arrives when its PR id is stored is answered
\* AlreadyExists, whatever author it names, and the stored PR and its
\* reviewers stay as they are.
C16_DuplicateRejected ==
    [][ \A p \in Workers :
          ( /\ w'[p].op = "CreatePullRequest" /\ w'[p] # w[p]
            /\ w[p].pc \in {"idle", "cp_exists"}
            /\ PRByExt(w'[p].pr) # {} )
          => /\ w'[p].pc = "done" => w'[p].res = "PR_EXISTS"
             /\ w[p].pc = "cp_exists" => w'[p].pc = "done"
             /\ UNCHANGED <<pull_requests, pr_reviewers>> ]_vars

\* C17: a PR appears in the committed tables only in the commit of CreatePR
\* and together with every reviewer selected for it; no assignment is stored
\* for a PR that is not; every other step of CreatePR, a failure after the
\* INSERT INTO pull_requests included, leaves both tables as they are.
C17_CreateAtomic ==
    [][ /\ \A r2 \in pull_requests' :
              (\A r \in pull_requests : r.id # r2.id) =>
                 \E p \in Workers :
                    /\ Step(p, "cp_commit", "done") /\ w'[p].res = "OK"
                    /\ r2.id = w[p].prid
                    /\ ReviewersOf(r2.id)' = w[p].picks
        /\ \A k \in DOMAIN pr_reviewers' : \E r \in pull_requests' : r.id = k.pr_id
        /\ \A p \in Workers :
              ( /\ w[p].op = "CreatePullRequest" /\ w'[p] # w[p]
                /\ ~(Step(p, "cp_commit", "done") /\ w'[p].res = "OK") )
              => UNCHANGED <<pull_requests, pr_reviewers>>
      ]_vars

\* a CreatePR failed at a reviewer insert, after its INSERT INTO pull_requests,
\* and nothing of it is stored
C17_Witness ==
    \E p \in Workers :
        /\ Finished(p, "CreatePullRequest") /\ w[p].res = "INTERNAL"
        /\ w[p].prid # 0 /\ w[p].picks # {}
        /\ \A r \in pull_requests : r.id # w[p].prid
        /\ \A k \in DOMAIN pr_reviewers : k.pr_id # w[p].prid

\* C18: a reassignment writes to the committed reviewers only in its commit,
\* where the old pair goes and the new pair comes in one step; a reassignment
\* that is answered with a failure has not committed.
C18_FailedReassignNoChange ==
    [][ \A p \in Workers :
          /\ ( /\ w[p].op = "ReassignReviewer" /\ w'[p] # w[p]
               /\ ~Step(p, "ra_commit", "ra_ok_get") )
             => UNCHANGED pr_reviewers
          /\ Step(p, "ra_commit", "ra_ok_get") =>
                /\ \A k \in w[p].del : ~BagIn(k, pr_reviewers')
                /\ \A k \in w[p].ins : BagIn(k, pr_reviewers')
          /\ (Finishes(p, "ReassignReviewer") /\ w'[p].res # "OK")
                => w[p].ret = {}
      ]_vars

\* a reassignment failed at its INSERT, after its DELETE, and the reviewer it
\* had deleted is still assigned
C18_Witness ==
    \E p \in Workers :
        /\ Finished(p, "ReassignReviewer") /\ w[p].res = "INTERNAL"
        /\ w[p].del # {}
        /\ \A k \in w[p].del : BagIn(k, pr_reviewers)

\* the external ids of the users listed in the team called name
Roster(name) ==
    {u.external_id : u \in {x \in users :
        \E t \in TeamByName(name) : [team_id |-> t.id, user_id |-> x.id] \in team_users}}

\* C19: when an UpsertTeam commits, the roster of the named team is exactly
\* the set of users listed in the request, and every listed user is stored
\* once, with the display name and the active flag of the request.
C19_RosterReplaced ==
    [][ \A p \in Workers :
          Step(p, "ct_commit", "done") =>
             LET t == TeamInputs[w[p].team] IN
             /\ w'[p].res = "OK"
             /\ Cardinality(TeamByName(t.team_name)') = 1
             /\ Roster(t.team_name)' = {m.user_id : m \in Seq2Set(t.members)}
             /\ \A tm \in TeamByName(t.team_name)', tu \in team_users' :
                   tu.team_id = tm.id => \E u \in users' : u.id = tu.user_id
             /\ \A m \in Seq2Set(t.members) :
                   /\ Cardinality(UserByExt(m.user_id)') = 1
                   /\ \A u \in UserByExt(m.user_id)' :
                         u.name = m.username /\ u.is_active = m.is_active
      ]_vars

\* the team of three has been upserted again with one member: the two others
\* are stored but no longer listed, the one kept has the new display name
C19_Witness ==
    \E p \in Workers :
        /\ Finished(p, "CreateTeam") /\ w[p].res = "OK"
        /\ w[p].del # {} /\ w[p].upd # {}
        /\ Roster("core") = {"1"}
        /\ UserByExt("2") # {} /\ UserByExt("u3") # {}
        /\ \A u \in UserByExt("1") : u.name = "bo"

\* C20: in every reachable state every user is listed in at most one team.
C20_OneTeamPerUser ==
    \A u \in users : Cardinality(TeamsOfUser(u.id)) <= 1

\* the step in which worker p takes and answers a request of kind op at once
Answers(p, op) == w[p].pc = "idle" /\ w'[p].pc = "done" /\ w'[p].op = op

\* the internal ids of the users registered under the external id ext
IdsOf(ext) == {u.id : u \in UserByExt(ext)}

\* C21: no step of a merge changes the reviewer assignments of any PR, and
\* the review list of a user who is a reviewer of a merged PR is answered
\* with success and contains that PR.
C21_MergeKeepsReviewers ==
    [][ \A p \in Workers :
          /\ (w[p].op = "MergePullRequest" /\ w'[p] # w[p])
                => UNCHANGED pr_reviewers
          /\ Answers(p, "GetUserReviews") =>
                \A r \in pull_requests :
                    ( /\ r.status = StatusMerged
                      /\ IdsOf(w'[p].user) \cap ReviewersOf(r.id) # {} )
                    => /\ w'[p].res = "OK"
                       /\ r.external_id \in Seq2Set(w'[p].list)
      ]_vars

\* the stored tables
Stored == <<users, teams, team_users, pull_requests, pr_reviewers>>

\* C22: a merge whose UPDATE finds no PR under the id changes nothing in that
\* statement or in the read that follows it, and is answered NotFound when the
\* read finds no PR either; a merge whose UPDATE finds the PR, OPEN or MERGED,
\* is answered with success; no step removes a PR.
C22_MergeNotFound ==
    [][ \A p \in Workers :
          /\ (w[p].pc = "mg_update" /\ w'[p] # w[p]) =>
                IF PRByExt(w[p].pr) = {}
                THEN w'[p].pc = "mg_get" /\ UNCHANGED Stored
                ELSE w'[p].pc = "mg_reviewers"
          /\ (w[p].pc = "mg_reviewers" /\ w'[p] # w[p]) =>
                w'[p].pc = "done" /\ w'[p].res = "OK"
          /\ (w[p].pc \in {"mg_get", "mg_get_rev"} /\ w'[p] # w[p]) =>
                UNCHANGED Stored
          /\ (w[p].pc = "mg_get" /\ w'[p] # w[p] /\ PRByExt(w[p].pr) = {}) =>
                w'[p].pc = "done" /\ w'[p].res = "NOT_FOUND"
          /\ \A r \in pull_requests : PRByExt(r.external_id)' # {}
      ]_vars

\* a merge of an id under which no PR is stored has been answered NotFound
C22_Witness ==
    \E p \in Workers :
        /\ Finished(p, "MergePullRequest") /\ w[p].res = "NOT_FOUND"
        /\ PRByExt(w[p].pr) = {}

\* the users registered under another external id than ext
OtherUsers(ext) == {u \in users : u.external_id # ext}

\* C23: the UPDATE of SetUserIsActive answers NotFound and changes nothing
\* when no user has the external id; when the user exists it sets the flag of
\* that user to the requested value and leaves every other user, the teams
\* and their rosters, the PRs and the reviewer assignments unchanged; the read
\* that follows changes nothing.
C23_SetActiveFrame ==
    [][ \A p \in Workers :
          /\ (w[p].pc = "su_update" /\ w'[p] # w[p]) =>
                IF UserByExt(w[p].user) = {}
                THEN /\ w'[p].pc = "done" /\ w'[p].res = "NOT_FOUND"
                     /\ UNCHANGED Stored
                ELSE /\ w'[p].pc = "su_get"
                     /\ UserByExt(w[p].user)' =
                          {[u EXCEPT !.is_active = w[p].flag] : u \in UserByExt(w[p].user)}
                     /\ OtherUsers(w[p].user)' = OtherUsers(w[p].user)
                     /\ UNCHANGED <<teams, team_users, pull_requests, pr_reviewers>>
          /\ (w[p].pc = "su_get" /\ w'[p] # w[p]) => UNCHANGED Stored
      ]_vars

\* a user has been deactivated by SetUserIsActive while another user is active
\* and a PR with reviewers is stored
C23_Witness ==
    \E p \in Workers :
        /\ w[p].op = "SetUserIsActive" /\ w[p].pc = "su_get" /\ ~w[p].flag
        /\ \E u \in UserByExt(w[p].user) : ~u.is_active
        /\ \E u \in OtherUsers(w[p].user) : u.is_active
        /\ \E r \in pull_requests : ReviewersOf(r.id) # {}

\* the PRs for which user ext currently holds a reviewer assignment
AssignedTo(ext) == {r \in pull_requests : IdsOf(ext) \cap ReviewersOf(r.id) # {}}

\* C24: the review list of a registered user is answered with success and
\* holds exactly the PRs the user is currently assigned to, each once, a PR
\* created later before a PR created earlier.
C24_ListByReviewer ==
    [][ \A p \in Workers :
          (Answers(p, "GetUserReviews") /\ UserByExt(w'[p].user) # {}) =>
             LET l == w'[p].list
                 S == AssignedTo(w'[p].user)
             IN /\ w'[p].res = "OK"
                /\ Seq2Set(l) = {r.external_id : r \in S}
                /\ Len(l) = Cardinality(S)
                /\ \A i, j \in DOMAIN l : i < j =>
                      \A a \in PRByExt(l[i]), b \in PRByExt(l[j]) :
                          a.created_at >= b.created_at
      ]_vars

\* C25: the review list of a user id under which no user is registered is
\* answered NotFound.
C25_UnknownUserNotFound ==
    [][ \A p \in Workers :
          (Answers(p, "GetUserReviews") /\ UserByExt(w'[p].user) = {}) =>
             w'[p].res = "NOT_FOUND"
      ]_vars

\* C26: a CreatePR with a fresh PR id whose author id is the external id of a
\* user listed in a team is not refused when it arrives nor when the author's team is looked
\* up, and the team it resolves is a team of that user.
C26_AuthorByExternalId ==
    [][ \A p \in Workers :
          ( /\ w'[p].op = "CreatePullRequest" /\ w'[p] # w[p]
            /\ w[p].pc \in {"idle", "cp_team"}
            /\ PRByExt(w'[p].pr) = {}
            /\ UserByExt(w'[p].user) # {}
            /\ ~NoTeam(w'[p].user) )
          => /\ w'[p].pc # "done"
             /\ w[p].pc = "cp_team" =>
                   \E u \in UserByExt(w'[p].user) : w'[p].teamID \in TeamsOfUser(u.id)
      ]_vars

\* the answers of POST /pullRequest/reassign the API documents
ReassignKinds == {"OK", "NOT_FOUND", "NOT_ASSIGNED", "PR_MERGED", "NO_CANDIDATE"}

\* C27: every Reassign is answered with success or with NotFound,
\* NotAssigned, AlreadyMerged or NoCandidate; a Reassign that looks up the
\* team of an author who is listed in no team is answered NoCandidate.
C27_ReassignOutcomes ==
    [][ \A p \in Workers :
          /\ Finishes(p, "ReassignReviewer") => w'[p].res \in ReassignKinds
          /\ (w[p].pc = "ra_team" /\ w'[p] # w[p] /\ TeamsOfUser(w[p].author) = {})
                => w'[p].pc = "done" /\ w'[p].res = "NO_CANDIDATE"
      ]_vars

\* the kind that names the check at which the transaction returned ErrNotFound
KindOf(cause) ==
    CASE cause = "pr" -> {"NOT_FOUND"}
      [] cause = "not_assigned" -> {"NOT_ASSIGNED"}
      [] cause = "no_candidate" -> {"NO_CANDIDATE"}
      [] OTHER -> {"NOT_FOUND", "NOT_ASSIGNED"}

\* C28: the kind a Reassign reports after the handler's secondary read is the
\* kind of the check at which its transaction failed: NotFound for a missing
\* PR, NotAssigned for an old reviewer without assignment, NoCandidate for an
\* empty candidate set.
C28_ReportedKindIsCause ==
    [][ \A p \in Workers :
          (Finishes(p, "ReassignReviewer") /\ w[p].pc \in {"h_get", "h_rev"})
             => w'[p].res \in KindOf(w[p].cause)
      ]_vars

\* C29: a Reassign that overlaps with no other request is answered NotFound
\* when no PR is stored under its id and AlreadyMerged when the PR is MERGED,
\* whatever old reviewer it names.
C29_CheckOrder ==
    [][ \A p \in Workers :
          (Finishes(p, "ReassignReviewer") /\ ~w[p].lap) =>
             /\ PRByExt(w[p].pr) = {} => w'[p].res = "NOT_FOUND"
             /\ (\E r \in PRByExt(w[p].pr) : r.status = StatusMerged)
                   => w'[p].res = "PR_MERGED"
      ]_vars

\* C30: the GetUser of a user who exists is answered with success, also when
\* the user is listed in no team.
C30_GetUserWithoutTeam ==
    [][ \A p \in Workers :
          (w[p].pc = "su_get" /\ w'[p] # w[p] /\ UserByExt(w[p].user) # {})
             => w'[p].pc = "done" /\ w'[p].res = "OK"
      ]_vars

\* worker p waits for a lock or a unique-index entry that worker q holds
WaitsFor(p, q) ==
    \/ WaitsForUser(p, q)
    \/ w[p].pc = "ct_team" /\ HoldsTeam(q, TeamInputs[w[p].team].team_name)
    \/ w[p].pc = "su_update" /\ HoldsUser(q, w[p].user)
    \/ w[p].pc = "cp_insert" /\ HoldsPRKey(q, w[p].pr)
    \/ w[p].pc = "ra_delete" /\ HoldsDelete(q, Key(w[p].prid, w[p].uid))
    \/ w[p].pc = "ra_insert" /\ \E n \in w[p].picks :
          HoldsInsert(q, Key(w[p].prid, n)) \/ HoldsDelete(q, Key(w[p].prid, n))

\* every request that has started is answered (checked under FairLock)
Terminates == \A p \in Workers : InFlight(p) ~> ~InFlight(p)

\* C31: in no reachable state do two requests wait for each other, each for
\* a row lock or a uniqueness check the other holds.
C31_NoMutualWait ==
    \A p, q \in Workers : ~(p # q /\ WaitsFor(p, q) /\ WaitsFor(q, p))

\* the number of reviewer rows of the PR with internal id prid
ReviewerCount(prid) == Cardinality(ReviewersOf(prid))

\* C32: no step changes the number of reviewers of a stored PR, and no PR
\* comes to have more than two reviewers.
C32_ReviewerCountKept ==
    [][ /\ \A r \in pull_requests : ReviewerCount(r.id)' = ReviewerCount(r.id)
        /\ \A r \in pull_requests' : ReviewerCount(r.id)' <= 2
      ]_vars

\* C33: a reassignment commits a new reviewer only when its own DELETE has
\* removed the pair of the old reviewer: of two reassignments of the same
\* reviewer of a PR, the one whose DELETE finds the pair gone adds nothing.
C33_OneReplacementPerPair ==
    [][ \A p \in Workers :
          Step(p, "ra_commit", "ra_ok_get") =>
             /\ w[p].del = {Key(w[p].prid, w[p].uid)}
             /\ \A k \in w[p].del : BagIn(k, pr_reviewers) /\ ~BagIn(k, pr_reviewers')
      ]_vars

TeamNames == {TeamInputs[t].team_name : t \in DOMAIN TeamInputs}

\* the external ids listed in request body t
Listed(t) == {m.user_id : m \in Seq2Set(TeamInputs[t].members)}

\* C34: the committed roster of a team changes only in the commit of an
\* UpsertTeam of that team, and then to exactly the list of that request;
\* two upserts of one team name are never both past their teams statement.
C34_RosterOfOneRequest ==
    [][ \A n \in TeamNames :
          /\ \/ Roster(n)' = Roster(n)
             \/ \E p \in Workers :
                   /\ Step(p, "ct_commit", "done")
                   /\ TeamInputs[w[p].team].team_name = n
                   /\ Roster(n)' = Listed(w[p].team)
          /\ \A p, q \in Workers :
                (p # q /\ w[p].op = "CreateTeam" /\ w[q].op = "CreateTeam"
                       /\ TeamInputs[w[p].team].team_name = n
                       /\ TeamInputs[w[q].team].team_name = n)
                => ~(w[p].pc \in {"ct_users", "ct_members", "ct_commit"}
                     /\ w[q].pc \in {"ct_users", "ct_members", "ct_commit"})
      ]_vars

\* an upsert of a team is about to commit its roster while an upsert of the
\* same team with another member list waits at its teams statement
C34_Witness ==
    \E p, q \in Workers :
        /\ p # q /\ w[p].pc = "ct_commit" /\ w[q].pc = "ct_team"
        /\ TeamInputs[w[p].team].team_name = TeamInputs[w[q].team].team_name
        /\ Listed(w[p].team) # Listed(w[q].team)

\* the reviewer ids a response lists for the PR stored under the external id ext
ReturnedIds(ext) == UNION {getPRReviewers(r.id) : r \in PRByExt(ext)}

\* C35: a Reassign on an OPEN PR whose old reviewer id is one of the reviewer
\* ids the responses list for that PR is not turned away at the lookup of the
\* old reviewer nor at the check of the assignment (no other request is served
\* while it runs).
C35_ReturnedIdAccepted ==
    [][ \A p \in Workers :
          ( /\ w[p].op = "ReassignReviewer" /\ w'[p] # w[p] /\ ~w[p].lap
            /\ w[p].pc \in {"ra_user", "ra_exists"}
            /\ \E r \in PRByExt(w[p].pr) : r.status = StatusOpen
            /\ w[p].user \in ReturnedIds(w[p].pr) )
          => w'[p].pc # "h_get"
      ]_vars

\* C36: a SetUserIsActive that is answered with a failure is answered by its
\* UPDATE, which matched no user and wrote nothing; a request whose UPDATE has
\* been applied is answered with success.
C36_FailureWritesNothing ==
    [][ \A p \in Workers :
          (Finishes(p, "SetUserIsActive") /\ w'[p].res # "OK") =>
             /\ w[p].pc = "su_update"
             /\ UserByExt(w[p].user) = {}
             /\ UNCHANGED users
      ]_vars

\* C37: no step of an UpsertTeam changes a PR or a reviewer assignment or
\* the roster of another team or a user the request does not list, and no
\* step removes a user: every stored user keeps its id and external id.
C37_UpsertTeamFrame ==
    [][ \A p \in Workers :
          (w[p].op = "CreateTeam" /\ w'[p] # w[p]) =>
             /\ UNCHANGED <<pull_requests, pr_reviewers>>
             /\ \A u \in users :
                   /\ \E v \in users' : v.id = u.id /\ v.external_id = u.external_id
                   /\ u.external_id \notin Listed(w[p].team) => u \in users'
             /\ \A tu \in team_users : tu.team_id # w[p].teamID => tu \in team_users'
      ]_vars

\* an UpsertTeam has committed a roster without a user who reviews a stored
\* PR: the user is in no team and still assigned
C37_Witness ==
    \E p \in Workers :
        /\ Finished(p, "CreateTeam") /\ w[p].res = "OK" /\ w[p].del # {}
        /\ \E r \in pull_requests, u \in users :
              /\ u.id \in ReviewersOf(r.id)
              /\ TeamsOfUser(u.id) = {}
              /\ u.external_id \notin Listed(w[p].team)

C39_DuplicateInsertSilent ==
    [][ \A p \in Workers :
          ( /\ w[p].pc = "ra_insert" /\ w'[p] # w[p]
            /\ \E n \in w[p].picks : BagIn(Key(w[p].prid, n), pr_reviewers) )
          => /\ w'[p].pc # "done"
             /\ UNCHANGED pr_reviewers
      ]_vars

====
